---- MODULE Spec2Model ----
(***************************************************************************)
(* LocalTileMapDownloader: the tile extraction and writing pipeline.       *)
(*   src/tile_writer.py            TileWriter (write_tiles, index)         *)
(*   src/extractors.py             CoordinateConverter, MBTilesExtractor   *)
(*   src/local_tile_downloader.py  LocalTileDownloader.download_area       *)
(* One output region is modelled; its directory tree, the tiles.json       *)
(* documents, the call frame of write_tiles and the MBTiles store are the  *)
(* state.                                                                  *)
(***************************************************************************)
EXTENDS Integers, Sequences, FiniteSets, TLC

(***************************************************************************)
(* Bounds of the model.                                                    *)
(***************************************************************************)
\* tile records handed to write_tiles, over all the calls of a run
MaxTiles == 2

\* zoom levels of an extraction and of a download: 0..MaxZoom
MaxZoom == 2

\* zoom levels a write_tiles request may name
WriterZooms == {1, 2}
\* zoom levels that may have a directory under the region
TreeZooms == WriterZooms \cup (0..MaxZoom)
\* (tile_column, tile_row) of the tile records handed to write_tiles
TileCoords == {<<0, 0>>, <<1, 0>>}
\* source_type arguments: download_area reaches write_tiles only with a type
\* for which the factory has an extractor
SourceTypes == {"mbtiles"}

(***************************************************************************)
(* Names.  A file or directory name is a sequence of characters, so that   *)
(* str(), int(), endswith() and split('.') are computed, not assumed.      *)
(***************************************************************************)
DigitChars == <<"0", "1", "2", "3", "4", "5", "6", "7", "8", "9">>

IsDigit(c) == \E d \in 1..10 : DigitChars[d] = c

DigitVal(c) == (CHOOSE d \in 1..10 : DigitChars[d] = c) - 1

RECURSIVE NatToStr(_)
NatToStr(n) ==
    IF n < 10 THEN <<DigitChars[n + 1]>>
    ELSE NatToStr(n \div 10) \o <<DigitChars[(n % 10) + 1]>>

\* str(n) of a Python int
IntToStr(n) == IF n < 0 THEN <<"-">> \o NatToStr(-n) ELSE NatToStr(n)

RECURSIVE DigitsVal(_)
DigitsVal(s) ==
    IF s = <<>> THEN 0
    ELSE 10 * DigitsVal(SubSeq(s, 1, Len(s) - 1)) + DigitVal(s[Len(s)])

\* int(s) of a Python str: an optional sign and decimal digits; anything else
\* raises ValueError (ok = FALSE).  Surrounding blanks and underscores, which
\* int() also accepts, are not among the characters of the model.
ParseInt(s) ==
    LET signed == Len(s) > 0 /\ s[1] \in {"-", "+"}
        body == IF signed THEN Tail(s) ELSE s
    IN  IF Len(body) > 0 /\ \A i \in 1..Len(body) : IsDigit(body[i])
        THEN [ok |-> TRUE,
              val |-> IF signed /\ s[1] = "-" THEN 0 - DigitsVal(body)
                      ELSE DigitsVal(body)]
        ELSE [ok |-> FALSE, val |-> 0]

\* s.endswith(suf)
EndsWith(s, suf) ==
    /\ Len(suf) <= Len(s)
    /\ SubSeq(s, Len(s) - Len(suf) + 1, Len(s)) = suf

\* s.split('.')[0]: the characters before the first dot
SplitFirst(s) ==
    IF \E i \in 1..Len(s) : s[i] = "."
    THEN SubSeq(s, 1, (CHOOSE i \in 1..Len(s) :
                          s[i] = "." /\ \A j \in 1..(i - 1) : s[j] # ".") - 1)
    ELSE s

\* self.supported_formats['mbtiles']
supported_formats ==
    { <<".", "p", "b", "f">>, <<".", "j", "p", "g">>,
      <<".", "j", "p", "e", "g">>, <<".", "p", "n", "g">> }

\* _get_extension_for_source_type: extension_map.get(source_type, 'jpg')
GetExtensionForSourceType(st) ==
    IF st = "mbtiles" THEN <<"j", "p", "g">> ELSE <<"j", "p", "g">>

(***************************************************************************)
(* Payloads.  bytes and str values carry their content; a str is written   *)
(* as its UTF-8 encoding.                                                  *)
(***************************************************************************)
\* one code point to its UTF-8 bytes (code points below 2048)
Utf8Char(cp) ==
    IF cp < 128 THEN <<cp>>
    ELSE <<192 + (cp \div 64), 128 + (cp % 64)>>

RECURSIVE Utf8Encode(_)
Utf8Encode(cps) ==
    IF cps = <<>> THEN <<>> ELSE Utf8Char(Head(cps)) \o Utf8Encode(Tail(cps))

BytesA == [kind |-> "bytes", val |-> <<1>>]
BytesB == [kind |-> "bytes", val |-> <<2>>]
StrE == [kind |-> "str", val |-> <<233>>]
NoneVal == [kind |-> "none", val |-> <<>>]

Payloads == {BytesA, BytesB, StrE, NoneVal}

\* a tile record is a tuple; a well-formed one has three components
TileRecords ==
    {<<c[1], c[2], p>> : c \in TileCoords, p \in Payloads} \cup {<<0, 0>>}

(***************************************************************************)
(* The output tree of the region.  tree[z] is the zoom directory           *)
(* <output>/<region>/<z>: whether it exists and its entries in listing     *)
(* order; an entry is a column directory (or a plain file) with its files  *)
(* in listing order.                                                       *)
(***************************************************************************)
NoDir == [exists |-> FALSE, entries |-> <<>>]

NoIndex == [present |-> FALSE, zoom |-> 0, tiles |-> <<>>, total_tiles |-> 0]

\* position of the entry called name in a listing, 0 when there is none
FindName(listing, name) ==
    IF \E i \in 1..Len(listing) : listing[i].name = name
    THEN CHOOSE i \in 1..Len(listing) : listing[i].name = name
    ELSE 0

\* a _write_single_tile that takes bytes only and refuses a str payload
WriteSingleTileBytesOnly(files, tile_row, tile_data, st, openFails) ==
    LET extension == GetExtensionForSourceType(st)
        name == IntToStr(tile_row) \o <<".">> \o extension
        i == FindName(files, name)
    IN  IF tile_data.kind # "bytes"
        THEN [ok |-> FALSE, files |-> files]
        ELSE IF openFails
        THEN [ok |-> FALSE, files |-> files]
        ELSE [ok |-> TRUE,
              files |-> IF i = 0
                        THEN Append(files, [name |-> name,
                                            data |-> tile_data.val])
                        ELSE [files EXCEPT ![i].data = tile_data.val]]

\* a _write_single_tile that leaves a file already at the path as it is
WriteSingleTileKeepsExisting(files, tile_row, tile_data, st, openFails) ==
    LET extension == GetExtensionForSourceType(st)
        name == IntToStr(tile_row) \o <<".">> \o extension
        data == IF tile_data.kind = "str" THEN Utf8Encode(tile_data.val)
                ELSE tile_data.val
        i == FindName(files, name)
    IN  IF tile_data.kind \notin {"str", "bytes"}
        THEN [ok |-> FALSE, files |-> files]
        ELSE IF openFails
        THEN [ok |-> FALSE, files |-> files]
        ELSE [ok |-> TRUE,
              files |-> IF i = 0
                        THEN Append(files, [name |-> name, data |-> data])
                        ELSE files]

\* a _write_single_tile that takes the extension from the payload: png for a
\* str
WriteSingleTileExtByPayload(files, tile_row, tile_data, st, openFails) ==
    LET extension == IF tile_data.kind = "str" THEN <<"p", "n", "g">>
                     ELSE GetExtensionForSourceType(st)
        name == IntToStr(tile_row) \o <<".">> \o extension
        data == IF tile_data.kind = "str" THEN Utf8Encode(tile_data.val)
                ELSE tile_data.val
        i == FindName(files, name)
    IN  IF tile_data.kind \notin {"str", "bytes"}
        THEN [ok |-> FALSE, files |-> files]
        ELSE IF openFails
        THEN [ok |-> FALSE, files |-> files]
        ELSE [ok |-> TRUE,
              files |-> IF i = 0
                        THEN Append(files, [name |-> name, data |-> data])
                        ELSE [files EXCEPT ![i].data = data]]

(***************************************************************************)
(* TileWriter._write_single_tile, on the listing of the column directory.  *)
(* openFails: open(tile_path, 'wb') or the write raises (caught, False).   *)
(***************************************************************************)
WriteSingleTile(files, tile_row, tile_data, st, openFails) ==
    LET extension == GetExtensionForSourceType(st)
        name == IntToStr(tile_row) \o <<".">> \o extension
        data == IF tile_data.kind = "str" THEN Utf8Encode(tile_data.val)
                ELSE tile_data.val
        i == FindName(files, name)
    IN  IF tile_data.kind \notin {"str", "bytes"}
        THEN [ok |-> FALSE, files |-> files]
        ELSE IF openFails
        THEN [ok |-> FALSE, files |-> files]
        ELSE [ok |-> TRUE,
              files |-> IF i = 0
                        THEN Append(files, [name |-> name, data |-> data])
                        ELSE [files EXCEPT ![i].data = data]]

(***************************************************************************)
(* One iteration of the tile loop of write_tiles (the body of its inner    *)
(* try), on the listing of the zoom directory.  io is the I/O fault of     *)
(* this iteration: "none", "mkdir" (os.makedirs(x_dir) raises) or "open".  *)
(* ok tells which counter the iteration increments.                        *)
(***************************************************************************)
ProcessTile(entries, tile_info, st, io) ==
    IF Len(tile_info) # 3
    THEN [ok |-> FALSE, entries |-> entries]
    ELSE
      LET xname == IntToStr(tile_info[1])
          i == FindName(entries, xname)
      IN  IF io = "mkdir" \/ (i # 0 /\ ~entries[i].isdir)
          THEN [ok |-> FALSE, entries |-> entries]
          ELSE
            LET made == IF i = 0
                        THEN Append(entries, [name |-> xname, isdir |-> TRUE,
                                              files |-> <<>>])
                        ELSE entries
                j == IF i = 0 THEN Len(made) ELSE i
                w == WriteSingleTile(made[j].files, tile_info[2], tile_info[3],
                                     st, io = "open")
            IN  [ok |-> w.ok, entries |-> [made EXCEPT ![j].files = w.files]]

(***************************************************************************)
(* TileWriter.create_tile_index.                                           *)
(***************************************************************************)
IsTileFile(name) == \E ext \in supported_formats : EndsWith(name, ext)

\* the inner loop over os.listdir(x_path): the rows found from position i on;
\* the ValueError of int() leaves the loop (it is caught outside of it)
RECURSIVE ScanFiles(_, _)
ScanFiles(files, i) ==
    IF i > Len(files) THEN <<>>
    ELSE IF IsTileFile(files[i].name)
    THEN LET y == ParseInt(SplitFirst(files[i].name))
         IN  IF y.ok THEN <<y.val>> \o ScanFiles(files, i + 1) ELSE <<>>
    ELSE ScanFiles(files, i + 1)

\* the loop over os.listdir(zoom_dir): the {x, y} found from position i on
RECURSIVE ScanZoomDir(_, _)
ScanZoomDir(entries, i) ==
    IF i > Len(entries) THEN <<>>
    ELSE IF entries[i].isdir
    THEN LET x == ParseInt(entries[i].name)
             ys == ScanFiles(entries[i].files, 1)
         IN  IF x.ok
             THEN [k \in 1..Len(ys) |-> [x |-> x.val, y |-> ys[k]]]
                    \o ScanZoomDir(entries, i + 1)
             ELSE ScanZoomDir(entries, i + 1)
    ELSE ScanZoomDir(entries, i + 1)

\* the loop over zoom_levels from position i on.  failAt: the position whose
\* directory scan or tiles.json write raises (0: none); the outer except ends
\* the whole construction there.
RECURSIVE IndexFrom(_, _, _, _, _)
IndexFrom(tr, idx, zoom_levels, i, failAt) ==
    IF i > Len(zoom_levels) THEN idx
    ELSE
      LET zoom == zoom_levels[i]
          tiles == ScanZoomDir(tr[zoom].entries, 1)
      IN  IF ~tr[zoom].exists
          THEN IndexFrom(tr, idx, zoom_levels, i + 1, failAt)
          ELSE IF failAt = i
          THEN idx
          ELSE IF tiles # <<>>
          THEN IndexFrom(tr,
                         [idx EXCEPT ![zoom] =
                            [present |-> TRUE, zoom |-> zoom, tiles |-> tiles,
                             total_tiles |-> Len(tiles)]],
                         zoom_levels, i + 1, failAt)
          ELSE IndexFrom(tr, idx, zoom_levels, i + 1, failAt)

CreateTileIndex(tr, idx, zoom_levels, failAt) ==
    IndexFrom(tr, idx, zoom_levels, 1, failAt)

\* the zoom levels whose iteration of create_tile_index completed
IndexedLevels(tr, zoom_levels, failAt) ==
    {zoom_levels[i] : i \in {k \in 1..Len(zoom_levels) :
        /\ tr[zoom_levels[k]].exists
        /\ \A m \in 1..k : ~(failAt = m /\ tr[zoom_levels[m]].exists)}}

\* the zoom levels for which create_tile_index wrote a tiles.json
WrittenLevels(tr, zoom_levels, failAt) ==
    {z \in IndexedLevels(tr, zoom_levels, failAt) :
        ScanZoomDir(tr[z].entries, 1) # <<>>}

(***************************************************************************)
(* State.                                                                  *)
(***************************************************************************)
VARIABLES
    tree,           \* the region's output tree: zoom -> [exists, entries]
    index,          \* zoom -> the tiles.json of the zoom directory
    pc,             \* position of the write_tiles call: idle, zoom, tile, done
    tiles_by_zoom,  \* the argument: its keys in order, each with its list length
    source_type,    \* the argument source_type
    zi,             \* position of the zoom loop in tiles_by_zoom
    ti,             \* position of the tile loop in the current list
    total_tiles,    \* success counter of the call
    failed_tiles,   \* failure counter of the call
    ret,            \* value the last call returned
    supplied,       \* tile records handed to write_tiles so far, all calls
    obs,            \* what the running call has met (see NoObs)
    store,          \* rows of the tiles relation of the MBTiles file
    bbox,           \* requested bounding box
    ex,             \* the last extract_tiles call: its zoom, result and fault
    dl,             \* the download_area call
    stats,          \* what the last get_tile_statistics call returned
    conv,           \* the last CoordinateConverter call and its result
    cfg,            \* the configuration file and the ConfigManager built on it
    cli             \* the command line of main and what main did with it

wvars == <<tree, index, pc, tiles_by_zoom, source_type, zi, ti, total_tiles,
           failed_tiles, ret, supplied, obs>>

evars == <<store, bbox, ex>>

xvars == <<stats, conv, cfg, cli>>

vars == <<wvars, evars, dl, xvars>>

\* the successful write the call made last, if any: the path, the bytes handed
\* over, and whether a file was already at that path
NoWrite == [zoom |-> 0, x |-> 0, y |-> 0, name |-> <<>>, file |-> <<>>,
            data |-> <<>>, again |-> FALSE]

\* observations of the running call: str payloads met, payloads that are
\* neither bytes nor str, whether a record was malformed or a tile's I/O
\* was faulty, the zoom level whose directory creation failed (0: none), whether
\* the region directory creation failed, whether create_tile_index was
\* invoked, whether it met a fault, the zoom levels it completed, those whose
\* tiles.json it wrote, and the last successful write
NoObs == [nStr |-> 0, nOther |-> 0, envFail |-> FALSE, zoomFailed |-> 0,
          regionFailed |-> FALSE, indexRan |-> FALSE, indexFault |-> FALSE,
          indexed |-> {}, written |-> {}, lastw |-> NoWrite]

\* the shapes of a tiles_by_zoom argument: its zoom levels in ascending order
\* (the order in which download_area inserts them), each with the length of
\* its list
ZoomOrders ==
    UNION {{o \in [1..k -> WriterZooms] :
              \A i, j \in 1..k : i < j => o[i] < o[j]}
           : k \in 0..Cardinality(WriterZooms)}

RECURSIVE SumN(_)
SumN(rq) == IF rq = <<>> THEN 0 ELSE Head(rq).n + SumN(Tail(rq))

RequestShapes ==
    UNION {{rq \in {[i \in 1..Len(o) |-> [zoom |-> o[i], n |-> c[i]]]
                      : c \in [1..Len(o) -> 0..MaxTiles]} :
              SumN(rq) <= MaxTiles}
           : o \in ZoomOrders}

ZoomLevels(rq) == [i \in 1..Len(rq) |-> rq[i].zoom]

\* nothing asked yet of the statistics, the converter, the configuration and
\* the command line
NoCall == [called |-> FALSE]

AuxIdle ==
    /\ stats = NoCall
    /\ conv = NoCall
    /\ cfg = NoCall
    /\ cli = NoCall

\* no write_tiles call has been made
WriterIdle ==
    /\ pc = "idle"
    /\ tiles_by_zoom = <<>>
    /\ source_type = "mbtiles"
    /\ zi = 0
    /\ ti = 0
    /\ total_tiles = 0
    /\ failed_tiles = 0
    /\ ret = 0
    /\ supplied = 0
    /\ obs = NoObs

\* a region without output yet
WriterInit ==
    /\ tree = [z \in TreeZooms |-> NoDir]
    /\ index = [z \in TreeZooms |-> NoIndex]
    /\ WriterIdle

(***************************************************************************)
(* write_tiles, a step per loop iteration.                                 *)
(***************************************************************************)
\* entry: the counters are zeroed and the region directory is made; when
\* os.makedirs(region_dir) raises (io), the outer except returns 0
WriteTilesBegin(rq, st, io) ==
    /\ pc \in {"idle", "done"}
    /\ supplied + SumN(rq) <= MaxTiles
    /\ supplied' = supplied + SumN(rq)
    /\ tiles_by_zoom' = rq
    /\ source_type' = st
    /\ total_tiles' = 0
    /\ failed_tiles' = 0
    /\ zi' = 1
    /\ ti' = 0
    /\ obs' = [NoObs EXCEPT !.regionFailed = io]
    /\ pc' = IF io THEN "done" ELSE "zoom"
    /\ ret' = IF io THEN 0 ELSE ret
    /\ UNCHANGED <<tree, index, evars, dl, xvars>>

\* a WriteTilesZoom that makes the zoom directory before looking at the list
WriteTilesZoomMakingEmpty(io) ==
    /\ pc = "zoom"
    /\ zi <= Len(tiles_by_zoom)
    /\ LET zoom == tiles_by_zoom[zi].zoom
       IN  IF io
           THEN /\ pc' = "done"
                /\ ret' = 0
                /\ obs' = [obs EXCEPT !.zoomFailed = zoom]
                /\ UNCHANGED <<tree, zi, ti>>
           ELSE IF tiles_by_zoom[zi].n = 0
           THEN /\ tree' = [tree EXCEPT ![zoom].exists = TRUE]
                /\ zi' = zi + 1
                /\ UNCHANGED <<pc, ti, ret, obs>>
           ELSE /\ tree' = [tree EXCEPT ![zoom].exists = TRUE]
                /\ pc' = "tile"
                /\ ti' = 1
                /\ UNCHANGED <<zi, ret, obs>>
    /\ UNCHANGED <<index, tiles_by_zoom, source_type, total_tiles,
                   failed_tiles, supplied, evars, dl, xvars>>

\* one iteration of the zoom loop up to its tile loop: an empty list is
\* skipped; otherwise the zoom directory is made, and when os.makedirs(zoom_dir)
\* raises (io) the outer except returns 0 without building the index
WriteTilesZoom(io) ==
    /\ pc = "zoom"
    /\ zi <= Len(tiles_by_zoom)
    /\ LET zoom == tiles_by_zoom[zi].zoom
       IN  IF tiles_by_zoom[zi].n = 0
           THEN /\ ~io
                /\ zi' = zi + 1
                /\ UNCHANGED <<tree, pc, ti, ret, obs>>
           ELSE IF io
           THEN /\ pc' = "done"
                /\ ret' = 0
                /\ obs' = [obs EXCEPT !.zoomFailed = zoom]
                /\ UNCHANGED <<tree, zi, ti>>
           ELSE /\ tree' = [tree EXCEPT ![zoom].exists = TRUE]
                /\ pc' = "tile"
                /\ ti' = 1
                /\ UNCHANGED <<zi, ret, obs>>
    /\ UNCHANGED <<index, tiles_by_zoom, source_type, total_tiles,
                   failed_tiles, supplied, evars, dl, xvars>>

\* one iteration of the tile loop, on the record tile_info
WriteTilesTile(tile_info, io) ==
    /\ pc = "tile"
    /\ LET zoom == tiles_by_zoom[zi].zoom
           r == ProcessTile(tree[zoom].entries, tile_info, source_type, io)
           wellFormed == Len(tile_info) = 3
           kind == IF wellFormed THEN tile_info[3].kind ELSE "none"
           xname == IF wellFormed THEN IntToStr(tile_info[1]) ELSE <<>>
           fname == IF wellFormed
                    THEN IntToStr(tile_info[2]) \o <<".">>
                           \o GetExtensionForSourceType(source_type)
                    ELSE <<>>
           xi == FindName(tree[zoom].entries, xname)
       IN  /\ tree' = [tree EXCEPT ![zoom].entries = r.entries]
           /\ total_tiles' = IF r.ok THEN total_tiles + 1 ELSE total_tiles
           /\ failed_tiles' = IF r.ok THEN failed_tiles ELSE failed_tiles + 1
           /\ obs' = [obs EXCEPT
                 !.nStr = IF wellFormed /\ kind = "str" THEN @ + 1 ELSE @,
                 !.nOther = IF wellFormed /\ kind \notin {"str", "bytes"}
                            THEN @ + 1 ELSE @,
                 !.envFail = @ \/ ~wellFormed \/ io # "none"
                               \/ (xi # 0 /\ ~tree[zoom].entries[xi].isdir),
                 !.lastw = IF r.ok
                           THEN [zoom |-> zoom, x |-> tile_info[1],
                                 y |-> tile_info[2],
                                 name |-> xname, file |-> fname,
                                 data |-> IF kind = "str"
                                          THEN Utf8Encode(tile_info[3].val)
                                          ELSE tile_info[3].val,
                                 again |-> xi # 0 /\ FindName(
                                     tree[zoom].entries[xi].files, fname) # 0]
                           ELSE NoWrite]
    /\ IF ti < tiles_by_zoom[zi].n
       THEN /\ ti' = ti + 1
            /\ UNCHANGED <<pc, zi>>
       ELSE /\ pc' = "zoom"
            /\ zi' = zi + 1
            /\ ti' = 0
    /\ UNCHANGED <<index, tiles_by_zoom, source_type, ret, supplied, evars, dl, xvars>>

\* after the zoom loop: create_tile_index over the keys of the argument, then
\* the success counter is returned.  failAt: see IndexFrom
WriteTilesFinish(failAt) ==
    /\ pc = "zoom"
    /\ zi > Len(tiles_by_zoom)
    /\ index' = CreateTileIndex(tree, index, ZoomLevels(tiles_by_zoom), failAt)
    /\ obs' = [obs EXCEPT
          !.indexRan = TRUE,
          !.indexFault = \E i \in 1..Len(tiles_by_zoom) :
                            failAt = i /\ tree[tiles_by_zoom[i].zoom].exists,
          !.indexed = IndexedLevels(tree, ZoomLevels(tiles_by_zoom), failAt),
          !.written = WrittenLevels(tree, ZoomLevels(tiles_by_zoom), failAt)]
    /\ ret' = total_tiles
    /\ pc' = "done"
    /\ UNCHANGED <<tree, tiles_by_zoom, source_type, zi, ti, total_tiles,
                   failed_tiles, supplied, evars, dl, xvars>>

WriterNext ==
    \/ \E rq \in RequestShapes, st \in SourceTypes, io \in BOOLEAN :
          WriteTilesBegin(rq, st, io)
    \/ \E io \in BOOLEAN : WriteTilesZoom(io)
    \/ \E tile_info \in TileRecords, io \in {"none", "mkdir", "open"} :
          WriteTilesTile(tile_info, io)
    \/ \E failAt \in 0..Cardinality(WriterZooms) : WriteTilesFinish(failAt)

(***************************************************************************)
(* Properties of write_tiles.                                              *)
(***************************************************************************)
Returned == pc = "done"

\* the call met no failure of its environment: every directory was made,
\* every record was a triple, every open and write went through
CleanRun ==
    /\ ~obs.regionFailed
    /\ obs.zoomFailed = 0
    /\ ~obs.envFail

\* C1: when write_tiles has returned, having made the region directory, every
\* tile record supplied in a non-empty zoom sequence has been attempted and
\* counted, as a success or as a failure: the two counters add up to the
\* number of records supplied.
C1_EverySuppliedTileCounted ==
    (Returned /\ ~obs.regionFailed) =>
        total_tiles + failed_tiles = SumN(tiles_by_zoom)

\* C2: write_tiles returns the number of tiles it wrote successfully.
C2_ReturnsWrittenCount ==
    Returned => ret = total_tiles

\* C3 as stated: a tile whose payload is not a byte string fails; with k such
\* payloads among n records whose writes otherwise succeed, n - k succeed, k
\* failures are counted and n - k is returned.
C3_NonBytesPayloadFails ==
    (Returned /\ CleanRun) =>
        LET n == SumN(tiles_by_zoom)
            k == obs.nStr + obs.nOther
        IN  /\ total_tiles = n - k
            /\ failed_tiles = k
            /\ ret = n - k

\* C3 amended: a tile whose payload is neither bytes nor str fails (a str is
\* encoded and written); with k such payloads among n records whose writes
\* otherwise succeed, n - k succeed, k failures are counted and n - k is
\* returned.
C3_NonBytesNonStrPayloadFails ==
    (Returned /\ CleanRun) =>
        LET n == SumN(tiles_by_zoom)
            k == obs.nOther
        IN  /\ total_tiles = n - k
            /\ failed_tiles = k
            /\ ret = n - k

\* a clean call of two records, one str and one neither bytes nor str, that
\* wrote one tile and returned 1
C3_Witness ==
    /\ Returned
    /\ CleanRun
    /\ SumN(tiles_by_zoom) = 2
    /\ obs.nStr = 1
    /\ obs.nOther = 1
    /\ ret = 1

\* C4: a zoom level whose directory cannot be made is absorbed inside
\* write_tiles: the other zoom levels are still gone through, the tiles
\* written are returned and the index is built.
C4_ZoomFailureAbsorbed ==
    (Returned /\ obs.zoomFailed # 0) =>
        /\ zi > Len(tiles_by_zoom)
        /\ ret = total_tiles
        /\ obs.indexRan

\* C12 as stated: after a call, no zoom level of the request whose list was
\* empty has had its tiles.json written by the call.
C12_EmptyLevelIndexNeverWritten ==
    Returned =>
        \A i \in 1..Len(tiles_by_zoom) :
            tiles_by_zoom[i].n = 0 => tiles_by_zoom[i].zoom \notin obs.written

\* a step of a running call leaves every empty zoom level of the request
\* whose directory is not there without directory and without tiles.json, and
\* the step that skips an empty level leaves the success counter as it is
EmptyLevelStep ==
    pc \in {"zoom", "tile"} =>
        /\ \A i \in 1..Len(tiles_by_zoom) :
              (tiles_by_zoom[i].n = 0 /\ ~tree[tiles_by_zoom[i].zoom].exists)
                => /\ ~tree'[tiles_by_zoom[i].zoom].exists
                   /\ index'[tiles_by_zoom[i].zoom]
                        = index[tiles_by_zoom[i].zoom]
                   /\ tiles_by_zoom[i].zoom \notin obs'.written
        /\ (pc = "zoom" /\ zi <= Len(tiles_by_zoom)
              /\ tiles_by_zoom[zi].n = 0) => total_tiles' = total_tiles

\* C12 amended: while a call runs, a zoom level of the request whose list is
\* empty and whose directory is not there gets no directory and no
\* tiles.json, and the step that skips it leaves the success counter as it is.
C12_EmptyLevelWithoutDirectoryUntouched == [][EmptyLevelStep]_vars

\* a call over an empty level without directory and a level with a tile has
\* returned: the tile is counted, the empty level has no directory and no
\* tiles.json
C12_Witness ==
    /\ Returned
    /\ obs.indexRan
    /\ ret = 1
    /\ \E i \in 1..Len(tiles_by_zoom) :
          /\ tiles_by_zoom[i].n = 0
          /\ ~tree[tiles_by_zoom[i].zoom].exists
          /\ ~index[tiles_by_zoom[i].zoom].present

\* positions <<i, j>> of the tile files present under the zoom directory z
TileFilesOn(z) ==
    {p \in UNION {{<<i, j>> : j \in 1..Len(tree[z].entries[i].files)}
                    : i \in 1..Len(tree[z].entries)} :
        /\ tree[z].entries[p[1]].isdir
        /\ IsTileFile(tree[z].entries[p[1]].files[p[2]].name)}

\* the (x, y) the path of the tile file at position p stands for
PairAt(z, p) ==
    <<ParseInt(tree[z].entries[p[1]].name).val,
      ParseInt(SplitFirst(tree[z].entries[p[1]].files[p[2]].name)).val>>

\* the tiles.json of zoom directory z reflects the disk: it lists exactly the
\* pairs of the tile files present, once each, and counts them; a directory
\* without tile files has no tiles.json
IndexReflects(z) ==
    IF index[z].present
    THEN /\ {<<index[z].tiles[k].x, index[z].tiles[k].y>>
               : k \in 1..Len(index[z].tiles)}
              = {PairAt(z, p) : p \in TileFilesOn(z)}
         /\ Len(index[z].tiles) = Cardinality(TileFilesOn(z))
         /\ index[z].total_tiles = Cardinality(TileFilesOn(z))
         /\ index[z].zoom = z
    ELSE TileFilesOn(z) = {}

\* C8: after a write_tiles call that made the region directory and whose
\* index construction met no fault of its own, the tiles.json of every zoom
\* level of the request whose directory exists reflects the disk.
C8_IndexReflectsDisk ==
    (Returned /\ ~obs.regionFailed /\ ~obs.indexFault) =>
        \A i \in 1..Len(tiles_by_zoom) :
            tree[tiles_by_zoom[i].zoom].exists =>
                IndexReflects(tiles_by_zoom[i].zoom)

\* the files called name in the column directory called col of zoom z
FilesAt(z, col, name) ==
    {p \in UNION {{<<i, j>> : j \in 1..Len(tree[z].entries[i].files)}
                    : i \in 1..Len(tree[z].entries)} :
        /\ tree[z].entries[p[1]].name = col
        /\ tree[z].entries[p[1]].files[p[2]].name = name}

\* C10: when a tile is written at a path where an earlier write had left a
\* file, exactly one file is at that path and it holds the later payload; and
\* once the call has rebuilt the index of that zoom level, the index lists
\* that (x, y) exactly once.
C10_RewriteKeepsOneFileLaterPayload ==
    obs.lastw.again =>
        LET w == obs.lastw
            at == FilesAt(w.zoom, w.name, w.file)
        IN  /\ Cardinality(at) = 1
            /\ \A p \in at :
                  tree[w.zoom].entries[p[1]].files[p[2]].data = w.data
            /\ (Returned /\ w.zoom \in obs.indexed) =>
                  Cardinality({k \in 1..Len(index[w.zoom].tiles) :
                      /\ index[w.zoom].tiles[k].x = w.x
                      /\ index[w.zoom].tiles[k].y = w.y}) = 1

\* a call has written, for the second time, a tile that an earlier call had
\* written with another payload, and has rebuilt the index of its zoom level
C10_Witness ==
    /\ Returned
    /\ obs.lastw.again
    /\ total_tiles = 1
    /\ obs.lastw.data = BytesB.val
    /\ obs.lastw.zoom \in obs.indexed
    /\ index[obs.lastw.zoom].present

(***************************************************************************)
(* CoordinateConverter.  Longitudes and latitudes are whole degrees.       *)
(***************************************************************************)
Lons == {-180, -90, 0, 179}
Lats == {-85, -40, 40, 85}

\* floor(2^22 * (1 - asinh(tan(radians(lat))) / pi) / 2) in double arithmetic
MercatorFrac(lat) ==
    CASE lat = -85 -> 4187434
      [] lat = -40 -> 2606427
      [] lat = 40 -> 1587876
      [] lat = 85 -> 6869

\* lat_lon_to_tile: int() of a non-negative float is its floor, and scaling
\* by n = 2.0 ** zoom is exact
LatLonToTile(lat, lon, zoom) ==
    <<((lon + 180) * (2 ^ zoom)) \div 360,
      (MercatorFrac(lat) * (2 ^ zoom)) \div 4194304>>

\* bbox_to_tile_range: (min_x, max_x, min_y, max_y), rows from the top
BboxToTileRange(b, zoom) ==
    LET lo == LatLonToTile(b[2], b[1], zoom)
        hi == LatLonToTile(b[4], b[3], zoom)
    IN  <<lo[1], hi[1], hi[2], lo[2]>>

\* a bbox_to_tile_range_tms that leaves the rows counted from the top
BboxToTileRangeTmsNoFlip(b, zoom) ==
    LET lo == LatLonToTile(b[2], b[1], zoom)
        hi == LatLonToTile(b[4], b[3], zoom)
    IN  <<lo[1], hi[1], hi[2], lo[2]>>

\* bbox_to_tile_range_tms: (min_x, max_x, tms_min_y, tms_max_y), rows from
\* the bottom
BboxToTileRangeTms(b, zoom) ==
    LET lo == LatLonToTile(b[2], b[1], zoom)
        hi == LatLonToTile(b[4], b[3], zoom)
        min_x == lo[1]
        max_y == lo[2]
        max_x == hi[1]
        min_y == hi[2]
        tms_min_y == ((2 ^ zoom) - 1) - max_y
        tms_max_y == ((2 ^ zoom) - 1) - min_y
    IN  <<min_x, max_x, tms_min_y, tms_max_y>>

(***************************************************************************)
(* The MBTiles store: the rows of its tiles relation, in the order a scan  *)
(* returns them.  The relation's tile_row has integer affinity; row_class  *)
(* is the storage class of the value of a row, which is "text" for a row   *)
(* that a view brings in from a column declared TEXT.  Such a value is     *)
(* compared as a number by the query and handed to Python as a str.        *)
(***************************************************************************)
StoreRows ==
    << [zoom_level |-> 2, tile_column |-> 0, tile_row |-> 0,
        row_class |-> "integer", tile_data |-> BytesA],
       [zoom_level |-> 2, tile_column |-> 1, tile_row |-> 1,
        row_class |-> "text", tile_data |-> BytesB],
       [zoom_level |-> 2, tile_column |-> 2, tile_row |-> 2,
        row_class |-> "integer", tile_data |-> BytesA],
       [zoom_level |-> 2, tile_column |-> 3, tile_row |-> 3,
        row_class |-> "integer", tile_data |-> BytesB],
       [zoom_level |-> 1, tile_column |-> 0, tile_row |-> 1,
        row_class |-> "integer", tile_data |-> BytesA],
       [zoom_level |-> 1, tile_column |-> 1, tile_row |-> 0,
        row_class |-> "integer", tile_data |-> BytesB],
       [zoom_level |-> 0, tile_column |-> 0, tile_row |-> 0,
        row_class |-> "integer", tile_data |-> BytesA] >>

\* the rows of a sequence at the positions of keep, in order
RECURSIVE PickRows(_, _, _)
PickRows(rows, keep, i) ==
    IF i > Len(rows) THEN <<>>
    ELSE IF i \in keep THEN <<rows[i]>> \o PickRows(rows, keep, i + 1)
    ELSE PickRows(rows, keep, i + 1)

Stores == {PickRows(StoreRows, keep, 1) : keep \in SUBSET (1..Len(StoreRows))}

BBoxes ==
    {<<lo, la, hi, ha>> : lo \in Lons, la \in Lats, hi \in Lons, ha \in Lats}

\* the bounding boxes a request may carry
ValidBBoxes == {b \in BBoxes : b[1] < b[3] /\ b[2] < b[4]}

(***************************************************************************)
(* MBTilesExtractor.extract_tiles.                                         *)
(***************************************************************************)
\* the SELECT: rows of the zoom whose column and row are in the ranges
RECURSIVE Query(_, _, _, _)
Query(rows, zoom, r, i) ==
    IF i > Len(rows) THEN <<>>
    ELSE IF /\ rows[i].zoom_level = zoom
            /\ r[1] <= rows[i].tile_column /\ rows[i].tile_column <= r[2]
            /\ r[3] <= rows[i].tile_row /\ rows[i].tile_row <= r[4]
    THEN <<rows[i]>> \o Query(rows, zoom, r, i + 1)
    ELSE Query(rows, zoom, r, i + 1)

\* a result loop whose flip is 2 ** zoom - tile_row
RECURSIVE FlipRowsOffByOne(_, _, _, _)
FlipRowsOffByOne(rows, zoom, i, tiles) ==
    IF i > Len(rows) THEN [tiles |-> tiles, raised |-> "none"]
    ELSE IF rows[i].row_class # "integer"
    THEN [tiles |-> tiles, raised |-> "TypeError"]
    ELSE FlipRowsOffByOne(rows, zoom, i + 1,
                          Append(tiles, <<rows[i].tile_column,
                                          (2 ^ zoom) - rows[i].tile_row,
                                          rows[i].tile_data>>))

\* the loop over cursor.fetchall(): each row is flipped and appended to tiles;
\* (2 ** zoom - 1) - tile_row raises TypeError on a str, and the except
\* leaves tiles as it is then
RECURSIVE FlipRows(_, _, _, _)
FlipRows(rows, zoom, i, tiles) ==
    IF i > Len(rows) THEN [tiles |-> tiles, raised |-> "none"]
    ELSE IF rows[i].row_class # "integer"
    THEN [tiles |-> tiles, raised |-> "TypeError"]
    ELSE FlipRows(rows, zoom, i + 1,
                  Append(tiles, <<rows[i].tile_column,
                                  ((2 ^ zoom) - 1) - rows[i].tile_row,
                                  rows[i].tile_data>>))

\* fault: what raises before the result loop ("connect", "execute", "fetch"),
\* or "none"
ExtractTiles(rows, b, zoom, fault) ==
    IF fault # "none"
    THEN [tiles |-> <<>>, raised |-> fault]
    ELSE FlipRows(Query(rows, zoom, BboxToTileRangeTms(b, zoom), 1),
                  zoom, 1, <<>>)

ExtractFaults == {"none", "connect", "execute", "fetch"}

NoExtract == [called |-> FALSE, zoom |-> 0, tiles |-> <<>>, raised |-> "none"]

\* one call extract_tiles(bbox, zoom) on the store
ExtractCall(zoom, fault) ==
    /\ ex' = [called |-> TRUE, zoom |-> zoom] @@
               ExtractTiles(store, bbox, zoom, fault)
    /\ UNCHANGED <<wvars, store, bbox, dl, xvars>>

(***************************************************************************)
(* LocalTileDownloader.download_area.  source is the entry of the          *)
(* requested source in the configuration: whether it is there, its bounds  *)
(* (<<>>: none), its min_zoom and max_zoom (<<>>: None).                   *)
(***************************************************************************)
DlSources ==
    { [present |-> FALSE, bounds |-> <<>>, min_zoom |-> <<>>,
       max_zoom |-> <<>>],
      [present |-> TRUE, bounds |-> <<>>, min_zoom |-> <<>>,
       max_zoom |-> <<>>],
      [present |-> TRUE, bounds |-> <<-180, -85, 0, 85>>, min_zoom |-> <<1>>,
       max_zoom |-> <<>>],
      [present |-> TRUE, bounds |-> <<>>, min_zoom |-> <<>>,
       max_zoom |-> <<1>>] }

DlStores ==
    { PickRows(StoreRows, 1..Len(StoreRows), 1),
      PickRows(StoreRows, {k \in 1..Len(StoreRows) :
                              StoreRows[k].row_class = "integer"}, 1),
      <<>> }

DlBBoxes ==
    { <<-180, -85, 179, 85>>, <<-180, -85, -90, -40>>, <<-90, -40, 0, 40>> }

\* a validation that does not look at the max_zoom of the source
ValidateSourceBoundsNoMaxZoom(source, b, min_zoom, max_zoom) ==
    IF ~source.present THEN FALSE
    ELSE
      /\ ~(/\ source.bounds # <<>>
            /\ \/ b[1] < source.bounds[1]
               \/ b[3] > source.bounds[3]
               \/ b[2] < source.bounds[2]
               \/ b[4] > source.bounds[4])
      /\ ~(source.min_zoom # <<>> /\ min_zoom < source.min_zoom[1])

\* ConfigManager.validate_source_bounds: is_valid
ValidateSourceBounds(source, b, min_zoom, max_zoom) ==
    IF ~source.present THEN FALSE
    ELSE
      /\ ~(/\ source.bounds # <<>>
            /\ \/ b[1] < source.bounds[1]
               \/ b[3] > source.bounds[3]
               \/ b[2] < source.bounds[2]
               \/ b[4] > source.bounds[4])
      /\ ~(source.min_zoom # <<>> /\ min_zoom < source.min_zoom[1])
      /\ ~(source.max_zoom # <<>> /\ max_zoom > source.max_zoom[1])

NoDownload ==
    [pc |-> "idle", source |-> [present |-> FALSE, bounds |-> <<>>,
                                min_zoom |-> <<>>, max_zoom |-> <<>>],
     min_zoom |-> 0, max_zoom |-> 0, zoom |-> 0, tiles_by_zoom |-> <<>>,
     extracted |-> <<>>, failed |-> {}, writes |-> 0, write_keys |-> <<>>,
     extracted_at_write |-> 0]

\* entry of download_area up to the zoom loop: the request is validated
\* against the source, and ValueError is raised when it is not valid
DownloadBegin(min_zoom, max_zoom) ==
    /\ dl.pc = "idle"
    /\ dl' = [dl EXCEPT
          !.min_zoom = min_zoom,
          !.max_zoom = max_zoom,
          !.zoom = min_zoom,
          !.pc = IF ValidateSourceBounds(dl.source, bbox, min_zoom, max_zoom)
                 THEN "extract" ELSE "raised"]
    /\ UNCHANGED <<wvars, evars, xvars>>

\* a zoom loop that leaves at the first level whose read failed
DownloadExtractBreaking(fault) ==
    /\ dl.pc = "extract"
    /\ dl.zoom <= dl.max_zoom
    /\ LET r == ExtractTiles(store, bbox, dl.zoom, fault)
       IN  /\ ex' = [called |-> TRUE, zoom |-> dl.zoom] @@ r
           /\ dl' = [dl EXCEPT
                 !.tiles_by_zoom =
                     Append(@, [zoom |-> dl.zoom, tiles |-> r.tiles]),
                 !.extracted = Append(@, dl.zoom),
                 !.failed = IF r.raised # "none" THEN @ \cup {dl.zoom} ELSE @,
                 !.zoom = IF r.raised # "none" THEN dl.max_zoom + 1
                          ELSE @ + 1]
    /\ UNCHANGED <<wvars, store, bbox, xvars>>

\* one iteration of the zoom loop: tiles_by_zoom[zoom] = extract_tiles(...)
DownloadExtract(fault) ==
    /\ dl.pc = "extract"
    /\ dl.zoom <= dl.max_zoom
    /\ LET r == ExtractTiles(store, bbox, dl.zoom, fault)
       IN  /\ ex' = [called |-> TRUE, zoom |-> dl.zoom] @@ r
           /\ dl' = [dl EXCEPT
                 !.tiles_by_zoom =
                     Append(@, [zoom |-> dl.zoom, tiles |-> r.tiles]),
                 !.extracted = Append(@, dl.zoom),
                 !.failed = IF r.raised # "none" THEN @ \cup {dl.zoom} ELSE @,
                 !.zoom = @ + 1]
    /\ UNCHANGED <<wvars, store, bbox, xvars>>

\* the tile loop of write_tiles over one list, without I/O fault
RECURSIVE WriteZoomTiles(_, _, _, _)
WriteZoomTiles(entries, tiles, i, st) ==
    IF i > Len(tiles) THEN [entries |-> entries, ok |-> 0]
    ELSE LET r == ProcessTile(entries, tiles[i], st, "none")
             rest == WriteZoomTiles(r.entries, tiles, i + 1, st)
         IN  [entries |-> rest.entries,
              ok |-> rest.ok + (IF r.ok THEN 1 ELSE 0)]

\* the zoom loop of write_tiles from position i on; failZoom is the position
\* whose os.makedirs(zoom_dir) raises (0: none)
RECURSIVE WriteZoomsFrom(_, _, _, _, _)
WriteZoomsFrom(tr, tbz, i, st, failZoom) ==
    IF i > Len(tbz) THEN [tree |-> tr, ok |-> 0, aborted |-> FALSE]
    ELSE IF tbz[i].tiles = <<>>
    THEN WriteZoomsFrom(tr, tbz, i + 1, st, failZoom)
    ELSE IF i = failZoom
    THEN [tree |-> tr, ok |-> 0, aborted |-> TRUE]
    ELSE LET zoom == tbz[i].zoom
             w == WriteZoomTiles(tr[zoom].entries, tbz[i].tiles, 1, st)
             rest == WriteZoomsFrom(
                        [tr EXCEPT ![zoom] = [exists |-> TRUE,
                                              entries |-> w.entries]],
                        tbz, i + 1, st, failZoom)
         IN  [tree |-> rest.tree, ok |-> rest.ok + w.ok,
              aborted |-> rest.aborted]

\* after the zoom loop: write_tiles(tiles_by_zoom, region_name, source_type),
\* as one step.  regionFails, failZoom, failAt: the faults of its directory
\* creations and of its index construction
DownloadWrite(regionFails, failZoom, failAt) ==
    /\ dl.pc = "extract"
    /\ dl.zoom > dl.max_zoom
    /\ LET keys == [i \in 1..Len(dl.tiles_by_zoom) |->
                       dl.tiles_by_zoom[i].zoom]
           w == WriteZoomsFrom(tree, dl.tiles_by_zoom, 1, "mbtiles", failZoom)
       IN  /\ tree' = IF regionFails THEN tree ELSE w.tree
           /\ index' = IF regionFails \/ w.aborted THEN index
                        ELSE CreateTileIndex(w.tree, index, keys, failAt)
           /\ ret' = IF regionFails \/ w.aborted THEN 0 ELSE w.ok
           /\ dl' = [dl EXCEPT
                 !.pc = "done",
                 !.writes = @ + 1,
                 !.write_keys = keys,
                 !.extracted_at_write = Len(dl.extracted)]
    /\ UNCHANGED <<pc, tiles_by_zoom, source_type, zi, ti, total_tiles,
                   failed_tiles, supplied, obs, evars, xvars>>

InitDownload ==
    /\ WriterInit
    /\ store \in DlStores
    /\ bbox \in DlBBoxes
    /\ ex = NoExtract
    /\ dl \in {[NoDownload EXCEPT !.source = src] : src \in DlSources}
    /\ AuxIdle

NextDownload ==
    \/ \E min_zoom, max_zoom \in 0..MaxZoom : DownloadBegin(min_zoom, max_zoom)
    \/ \E fault \in ExtractFaults : DownloadExtract(fault)
    \/ \E regionFails \in BOOLEAN, failZoom, failAt \in 0..(MaxZoom + 1) :
          DownloadWrite(regionFails, failZoom, failAt)

SpecDownload == InitDownload /\ [][NextDownload]_vars

\* the requested zoom levels, ascending
RequestedZooms ==
    [i \in 1..(IF dl.max_zoom >= dl.min_zoom
               THEN dl.max_zoom - dl.min_zoom + 1 ELSE 0) |->
        dl.min_zoom + i - 1]

\* C7: extract_tiles is invoked once per zoom level of [min_zoom, max_zoom],
\* in ascending order, read failures or not; write_tiles is invoked exactly
\* once, after all the levels were extracted, with a key for every requested
\* level.
C7_EveryZoomExtractedThenOneWrite ==
    /\ Len(dl.extracted) <= Len(RequestedZooms)
    /\ \A i \in 1..Len(dl.extracted) : dl.extracted[i] = RequestedZooms[i]
    /\ dl.pc # "done" => dl.writes = 0
    /\ dl.pc = "done" =>
          /\ dl.extracted = RequestedZooms
          /\ dl.writes = 1
          /\ dl.extracted_at_write = Len(RequestedZooms)
          /\ dl.write_keys = RequestedZooms

\* a download over three zoom levels whose first read failed and whose last
\* level brought tiles, written once
C7_Witness ==
    /\ dl.pc = "done"
    /\ dl.writes = 1
    /\ Len(dl.tiles_by_zoom) = 3
    /\ dl.tiles_by_zoom[1].zoom \in dl.failed
    /\ dl.tiles_by_zoom[3].zoom \notin dl.failed
    /\ dl.tiles_by_zoom[3].tiles # <<>>
    /\ ret > 0

(***************************************************************************)
(* The writer alone: any sequence of write_tiles calls on one output       *)
(* directory.                                                              *)
(***************************************************************************)
IdleRest ==
    /\ store = <<>>
    /\ bbox = <<0, 0, 0, 0>>
    /\ ex = NoExtract
    /\ dl = NoDownload
    /\ AuxIdle

Init == WriterInit /\ IdleRest

Next == WriterNext

Spec == Init /\ [][Next]_vars

(***************************************************************************)
(* Index construction alone, on a region whose zoom directory 1 holds      *)
(* whatever a directory may hold: column directories and plain files, with *)
(* integer names or not, in any listing order.                             *)
(***************************************************************************)
\* entries of one directory listing
MaxListing == 2

\* names of the files of a column directory: a.jpg, 7.jpg, 8.png
IndexFileNames ==
    { <<"a", ".", "j", "p", "g">>, <<"7", ".", "j", "p", "g">>,
      <<"8", ".", "p", "n", "g">> }

\* names of the column directories of the zoom directory: 5, x
IndexDirNames == { <<"5">>, <<"x">> }

\* names of the plain files of the zoom directory: 9
IndexPlainNames == { <<"9">> }

\* the listings os.listdir may return over a set of names: up to MaxListing
\* distinct names in any order
Listings(names) ==
    UNION {{o \in [1..k -> names] : \A i, j \in 1..k : o[i] = o[j] => i = j}
           : k \in 0..MaxListing}

FileListings ==
    {[k \in 1..Len(o) |-> [name |-> o[k], data |-> BytesA.val]]
       : o \in Listings(IndexFileNames)}

EntryListings ==
    UNION {{e \in {[k \in 1..Len(o) |->
                       [name |-> o[k], isdir |-> o[k] \in IndexDirNames,
                        files |-> f[k]]]
                    : f \in [1..Len(o) -> FileListings]} :
              \A k \in 1..Len(e) : e[k].isdir \/ e[k].files = <<>>}
           : o \in Listings(IndexDirNames \cup IndexPlainNames)}

\* zoom directory 2 holds the one tile 0/0.jpg
OneTileDir ==
    [exists |-> TRUE,
     entries |-> <<[name |-> <<"0">>, isdir |-> TRUE,
                    files |-> <<[name |-> <<"0", ".", "j", "p", "g">>,
                                 data |-> BytesA.val]>>]>>]

InitIndex ==
    /\ \E e \in EntryListings :
          tree = [z \in TreeZooms |->
                    IF z = 1 THEN [exists |-> TRUE, entries |-> e]
                    ELSE IF z = 2 THEN OneTileDir
                    ELSE NoDir]
    /\ index = [z \in TreeZooms |-> NoIndex]
    /\ WriterIdle
    /\ store = <<>>
    /\ bbox = <<0, 0, 0, 0>>
    /\ ex = NoExtract
    /\ dl = NoDownload
    /\ AuxIdle

\* one call create_tile_index(region_name, zoom_levels); failAt: see IndexFrom
IndexCall(zoom_levels, failAt) ==
    /\ index' = CreateTileIndex(tree, index, zoom_levels, failAt)
    /\ obs' = [obs EXCEPT
          !.indexRan = TRUE,
          !.indexFault = \E i \in 1..Len(zoom_levels) :
                            failAt = i /\ tree[zoom_levels[i]].exists,
          !.indexed = IndexedLevels(tree, zoom_levels, failAt),
          !.written = WrittenLevels(tree, zoom_levels, failAt)]
    /\ UNCHANGED <<tree, pc, tiles_by_zoom, source_type, zi, ti, total_tiles,
                   failed_tiles, ret, supplied, evars, dl, xvars>>

NextIndex ==
    \E zoom_levels \in {<<1>>, <<2>>, <<1, 2>>, <<2, 1>>},
       failAt \in 0..Cardinality(WriterZooms) :
        IndexCall(zoom_levels, failAt)

SpecIndex == InitIndex /\ [][NextIndex]_vars

\* the (x, y) of the tile files under zoom directory z whose column directory
\* and file are both named by an integer
WellFormedPairs(z) ==
    {PairAt(z, p) : p \in {q \in TileFilesOn(z) :
        /\ ParseInt(tree[z].entries[q[1]].name).ok
        /\ ParseInt(SplitFirst(
               tree[z].entries[q[1]].files[q[2]].name)).ok}}

\* C9: a column directory or tile file whose name is not an integer omits
\* only itself: for every zoom level whose index construction completed,
\* every well-formed tile file under it is listed in its tiles.json, which is
\* written whenever there is such a file.
C9_MalformedNameOmitsOnlyItself ==
    \A z \in obs.indexed :
        /\ WellFormedPairs(z) # {} => index[z].present
        /\ WellFormedPairs(z) \subseteq
              {<<index[z].tiles[k].x, index[z].tiles[k].y>>
                 : k \in 1..Len(index[z].tiles)}

(***************************************************************************)
(* Extraction alone: any store, any valid bounding box, any zoom.          *)
(***************************************************************************)
InitExtract ==
    /\ WriterInit
    /\ store \in Stores
    /\ bbox \in ValidBBoxes
    /\ ex = NoExtract
    /\ dl = NoDownload
    /\ AuxIdle

NextExtract ==
    \E zoom \in 0..MaxZoom, fault \in ExtractFaults : ExtractCall(zoom, fault)

SpecExtract == InitExtract /\ [][NextExtract]_vars

\* occurrences of x in the sequence s
Count(s, x) == Cardinality({i \in 1..Len(s) : s[i] = x})

SameBag(s, t) ==
    \A x \in {s[i] : i \in 1..Len(s)} \cup {t[i] : i \in 1..Len(t)} :
        Count(s, x) = Count(t, x)

\* the stored tiles of the zoom whose column and top-origin row are in the
\* top-origin range r, each as (column, topOriginRow, payload)
RECURSIVE TopOriginSelection(_, _, _, _)
TopOriginSelection(rows, zoom, r, i) ==
    IF i > Len(rows) THEN <<>>
    ELSE LET top == ((2 ^ zoom) - 1) - rows[i].tile_row
         IN  IF /\ rows[i].zoom_level = zoom
                /\ r[1] <= rows[i].tile_column /\ rows[i].tile_column <= r[2]
                /\ r[3] <= top /\ top <= r[4]
             THEN <<<<rows[i].tile_column, top, rows[i].tile_data>>>>
                    \o TopOriginSelection(rows, zoom, r, i + 1)
             ELSE TopOriginSelection(rows, zoom, r, i + 1)

\* C5: a successful extract_tiles emits exactly one record (column,
\* topOriginRow, payload) for each stored tile of the zoom whose column and
\* top-origin row lie in bbox_to_tile_range(bbox, zoom), and nothing else.
C5_ExtractEqualsTopOriginFilter ==
    (ex.called /\ ex.raised = "none") =>
        SameBag(ex.tiles,
                TopOriginSelection(store, ex.zoom,
                                   BboxToTileRange(bbox, ex.zoom), 1))

\* a successful extraction that emitted a tile whose row was flipped and left
\* out a stored tile of the same zoom
C5_Witness ==
    /\ ex.called
    /\ ex.raised = "none"
    /\ ex.zoom = 2
    /\ \E i \in 1..Len(ex.tiles) :
          \E k \in 1..Len(store) :
             /\ store[k].zoom_level = ex.zoom
             /\ store[k].tile_column = ex.tiles[i][1]
             /\ store[k].tile_row # ex.tiles[i][2]
    /\ \E k \in 1..Len(store) :
          /\ store[k].zoom_level = ex.zoom
          /\ \A i \in 1..Len(ex.tiles) : ex.tiles[i][1] # store[k].tile_column

\* C6: when a failure occurs while extract_tiles handles a zoom level, the
\* call yields an empty result, not a partial list.
C6_FailureYieldsEmptyResult ==
    (ex.called /\ ex.raised # "none") => ex.tiles = <<>>

(***************************************************************************)
(* TileWriter.get_tile_statistics, on a region left by earlier runs: zoom  *)
(* directory 1 holds column directories with tile files in any listing     *)
(* order, zoom directory 2 is there or not.                                *)
(***************************************************************************)
\* self.supported_formats[key]: the dict has the one key 'mbtiles'
FormatsOf(key) ==
    IF key = "mbtiles" THEN [ok |-> TRUE, val |-> supported_formats]
    ELSE [ok |-> FALSE, val |-> {}]

\* s.split('.')[-1]: the characters after the last dot
SplitLast(s) ==
    IF \E i \in 1..Len(s) : s[i] = "."
    THEN SubSeq(s, (CHOOSE i \in 1..Len(s) :
                      s[i] = "." /\ \A j \in (i + 1)..Len(s) : s[j] # ".") + 1,
                Len(s))
    ELSE s

\* a {'min': .., 'max': ..} after a value is taken in; <<>> is None, None
Widen(range, v) ==
    IF range = <<>> THEN <<v, v>>
    ELSE <<IF v < range[1] THEN v ELSE range[1],
           IF v > range[2] THEN v ELSE range[2]>>

\* formats[fmt] += 1, the key being created at 0 first
CountFormat(formats, fmt) ==
    IF fmt \in DOMAIN formats THEN [formats EXCEPT ![fmt] = @ + 1]
    ELSE formats @@ (fmt :> 1)

NoZoomStats ==
    [tiles |-> 0, formats |-> <<>>, x_range |-> <<>>, y_range |-> <<>>]

\* the loop over os.listdir(x_path) from position j on.  The lookups
\* supported_formats['raster'] and ['vector'] are made for each file; a
\* missing key raises KeyError, an ill-named file ValueError
RECURSIVE StatFiles(_, _, _)
StatFiles(files, j, st) ==
    IF j > Len(files) THEN [stats |-> st, raised |-> FALSE]
    ELSE IF ~FormatsOf("raster").ok \/ ~FormatsOf("vector").ok
    THEN [stats |-> st, raised |-> TRUE]
    ELSE IF \E ext \in FormatsOf("raster").val \cup FormatsOf("vector").val :
               EndsWith(files[j].name, ext)
    THEN LET y == ParseInt(SplitFirst(files[j].name))
         IN  IF ~y.ok THEN [stats |-> st, raised |-> TRUE]
             ELSE StatFiles(files, j + 1,
                    [st EXCEPT
                       !.y_range = Widen(@, y.val),
                       !.tiles = @ + 1,
                       !.formats = CountFormat(@, SplitLast(files[j].name))])
    ELSE StatFiles(files, j + 1, st)

\* the loop over os.listdir(zoom_dir) from position i on; any exception ends
\* it and the statistics gathered so far are returned
RECURSIVE StatEntries(_, _, _)
StatEntries(entries, i, st) ==
    IF i > Len(entries) THEN st
    ELSE IF ~entries[i].isdir THEN StatEntries(entries, i + 1, st)
    ELSE LET x == ParseInt(entries[i].name)
         IN  IF ~x.ok THEN st
             ELSE LET f == StatFiles(entries[i].files, 1,
                                     [st EXCEPT !.x_range = Widen(@, x.val)])
                  IN  IF f.raised THEN f.stats
                      ELSE StatEntries(entries, i + 1, f.stats)

\* _get_zoom_statistics
GetZoomStatistics(entries) == StatEntries(entries, 1, NoZoomStats)

RECURSIVE SumTiles(_, _)
SumTiles(zs, per) ==
    IF zs = {} THEN 0
    ELSE LET z == CHOOSE v \in zs : TRUE
         IN  per[z].tiles + SumTiles(zs \ {z}, per)

\* get_tile_statistics: the zoom directories of the region, each with its
\* statistics, and the totals
GetTileStatistics(tr) ==
    LET zooms == {z \in DOMAIN tr : tr[z].exists}
        per == [z \in zooms |-> GetZoomStatistics(tr[z].entries)]
    IN  [called |-> TRUE,
         total_zoom_levels |-> Cardinality(zooms),
         total_tiles |-> SumTiles(zooms, per),
         zoom_levels |-> per]

\* names of the column directories and tile files a run leaves: 0, 5 and
\* 0.jpg, 7.jpg, 8.png
StatsDirNames == { <<"0">>, <<"5">> }

StatsFileNames ==
    { <<"0", ".", "j", "p", "g">>, <<"7", ".", "j", "p", "g">>,
      <<"8", ".", "p", "n", "g">> }

StatsFileListings ==
    {[k \in 1..Len(o) |-> [name |-> o[k], data |-> BytesA.val]]
       : o \in Listings(StatsFileNames)}

StatsEntryListings ==
    UNION {{[k \in 1..Len(o) |->
               [name |-> o[k], isdir |-> TRUE, files |-> f[k]]]
            : f \in [1..Len(o) -> StatsFileListings]}
           : o \in Listings(StatsDirNames)}

InitStats ==
    /\ \E e \in StatsEntryListings, d \in {NoDir, OneTileDir} :
          tree = [z \in TreeZooms |->
                    IF z = 1 THEN [exists |-> TRUE, entries |-> e]
                    ELSE IF z = 2 THEN d
                    ELSE NoDir]
    /\ index = [z \in TreeZooms |-> NoIndex]
    /\ WriterIdle
    /\ store = <<>>
    /\ bbox = <<0, 0, 0, 0>>
    /\ ex = NoExtract
    /\ dl = NoDownload
    /\ AuxIdle

\* one call get_tile_statistics(region_name)
StatsCall ==
    /\ stats' = GetTileStatistics(tree)
    /\ UNCHANGED <<wvars, evars, dl, conv, cfg, cli>>

NextStats == StatsCall

SpecStats == InitStats /\ [][NextStats]_vars

RECURSIVE SumCounts(_)
SumCounts(formats) ==
    IF DOMAIN formats = {} THEN 0
    ELSE LET k == CHOOSE v \in DOMAIN formats : TRUE
         IN  formats[k] + SumCounts([q \in DOMAIN formats \ {k} |->
                                      formats[q]])

\* the range of a non-empty set of integers, <<>> for the empty set
RangeOf(vals) ==
    IF vals = {} THEN <<>>
    ELSE <<CHOOSE v \in vals : \A w \in vals : v <= w,
           CHOOSE v \in vals : \A w \in vals : v >= w>>

\* C11: get_tile_statistics reports, for every zoom directory, the number of
\* tile files under it, formats that sum to that number, the range of the
\* column directories and the range of the rows of the tile files present,
\* and as total the sum over the zoom directories.
C11_StatisticsReflectDisk ==
    stats.called =>
        /\ \A z \in {v \in DOMAIN tree : tree[v].exists} :
              /\ z \in DOMAIN stats.zoom_levels
              /\ stats.zoom_levels[z].tiles = Cardinality(TileFilesOn(z))
              /\ SumCounts(stats.zoom_levels[z].formats)
                    = stats.zoom_levels[z].tiles
              /\ stats.zoom_levels[z].x_range
                    = RangeOf({ParseInt(tree[z].entries[i].name).val
                                 : i \in {k \in 1..Len(tree[z].entries) :
                                            tree[z].entries[k].isdir}})
              /\ stats.zoom_levels[z].y_range
                    = RangeOf({PairAt(z, p)[2] : p \in TileFilesOn(z)})
        /\ stats.total_tiles
              = SumTiles(DOMAIN stats.zoom_levels, stats.zoom_levels)

(***************************************************************************)
(* CoordinateConverter alone: one call of one of its functions, on any     *)
(* input.                                                                  *)
(***************************************************************************)
\* the longitudes of the data model, both ends included
AllLons == Lons \cup {180}

\* bounding boxes of either orientation
AnyBBoxes ==
    {<<lo, la, hi, ha>> : lo \in AllLons, la \in Lats, hi \in AllLons,
                          ha \in Lats}

\* zoom levels whose tile centres are whole millionths of a degree
RoundTripZooms == {0, 1, 2}

\* degrees(atan(sinh(pi * (1 - 2 * y / n)))) in millionths of a degree, for
\* the row edges of the zoom levels 0..2; 4 * y / n tells the edge
EdgeLatMicro(y, zoom) ==
    LET q == (4 * y) \div (2 ^ zoom)
    IN  CASE q = 0 -> 85051129
          [] q = 1 -> 66513260
          [] q = 2 -> 0
          [] q = 3 -> -66513260
          [] q = 4 -> -85051129

\* a tile_to_bbox that takes the latitudes of the row below
TileToBboxRowBelow(x, y, zoom) ==
    <<(x * 360000000) \div (2 ^ zoom) - 180000000,
      EdgeLatMicro(((y + 1) % (2 ^ zoom)) + 1, zoom),
      ((x + 1) * 360000000) \div (2 ^ zoom) - 180000000,
      EdgeLatMicro((y + 1) % (2 ^ zoom), zoom)>>

\* tile_to_bbox: [lon_west, lat_south, lon_east, lat_north], in millionths
\* of a degree
TileToBbox(x, y, zoom) ==
    <<(x * 360000000) \div (2 ^ zoom) - 180000000,
      EdgeLatMicro(y + 1, zoom),
      ((x + 1) * 360000000) \div (2 ^ zoom) - 180000000,
      EdgeLatMicro(y, zoom)>>

\* floor(2^22 * (1 - asinh(tan(radians(lat))) / pi) / 2) in double
\* arithmetic, for the latitudes of the tile centres of the zoom levels 0..2,
\* given in millionths of a degree
MercatorFracMicro(lat) ==
    CASE lat = 0 -> 2097152
      [] lat = 42525564 -> 1548723
      [] lat = -42525565 -> 2645580
      [] lat = 75782194 -> 707505
      [] lat = 33256630 -> 1685894
      [] lat = -33256630 -> 2508409
      [] lat = -75782195 -> 3486798

\* lat_lon_to_tile on coordinates in millionths of a degree
LatLonToTileMicro(lat, lon, zoom) ==
    <<((lon + 180000000) * (2 ^ zoom)) \div 360000000,
      (MercatorFracMicro(lat) * (2 ^ zoom)) \div 4194304>>

\* the tile of the centre of the bounding box of tile (x, y)
RoundTrip(x, y, zoom) ==
    LET b == TileToBbox(x, y, zoom)
    IN  LatLonToTileMicro((b[2] + b[4]) \div 2, (b[1] + b[3]) \div 2, zoom)

NoConv ==
    [called |-> TRUE, op |-> "none", b |-> <<0, 0, 0, 0>>, lat |-> 0,
     lon |-> 0, x |-> 0, y |-> 0, zoom |-> 0, result |-> <<>>]

\* one call lat_lon_to_tile(lat, lon, zoom)
TileCall(lat, lon, zoom) ==
    /\ ~conv.called
    /\ conv' = [NoConv EXCEPT !.op = "tile", !.lat = lat, !.lon = lon,
                              !.zoom = zoom,
                              !.result = LatLonToTile(lat, lon, zoom)]
    /\ UNCHANGED <<wvars, evars, dl, stats, cfg, cli>>

\* one call bbox_to_tile_range(b, zoom) or bbox_to_tile_range_tms(b, zoom)
RangeCall(b, zoom, tms) ==
    /\ ~conv.called
    /\ conv' = [NoConv EXCEPT !.op = IF tms THEN "range_tms" ELSE "range",
                              !.b = b, !.zoom = zoom,
                              !.result = IF tms
                                         THEN BboxToTileRangeTms(b, zoom)
                                         ELSE BboxToTileRange(b, zoom)]
    /\ UNCHANGED <<wvars, evars, dl, stats, cfg, cli>>

\* tile_to_bbox(x, y, zoom), then lat_lon_to_tile of the centre of the box
RoundTripCall(x, y, zoom) ==
    /\ ~conv.called
    /\ conv' = [NoConv EXCEPT !.op = "round_trip", !.x = x, !.y = y,
                              !.zoom = zoom, !.result = RoundTrip(x, y, zoom)]
    /\ UNCHANGED <<wvars, evars, dl, stats, cfg, cli>>

NextConvert ==
    \/ \E lat \in Lats, lon \in AllLons, zoom \in 0..MaxZoom :
          TileCall(lat, lon, zoom)
    \/ \E b \in AnyBBoxes, zoom \in 0..MaxZoom, tms \in BOOLEAN :
          RangeCall(b, zoom, tms)
    \/ \E zoom \in RoundTripZooms :
          \E x, y \in 0..((2 ^ zoom) - 1) : RoundTripCall(x, y, zoom)

SpecConvert == Init /\ [][NextConvert]_vars

\* C13: both range functions return min_col <= max_col and min_row <= max_row
\* for a bounding box of any orientation.
C13_RangeIsOrdered ==
    (conv.called /\ conv.op \in {"range", "range_tms"}) =>
        /\ conv.result[1] <= conv.result[2]
        /\ conv.result[3] <= conv.result[4]

\* C14: the centre of the bounding box of a tile converts back to the tile.
C14_CentreRoundTrip ==
    (conv.called /\ conv.op = "round_trip") => conv.result = <<conv.x, conv.y>>

\* the round trip of tile (3, 1) of zoom 2 was made
C14_Witness ==
    /\ conv.called
    /\ conv.op = "round_trip"
    /\ conv.zoom = 2
    /\ conv.x = 3
    /\ conv.y = 1
    /\ conv.result = <<3, 1>>

(***************************************************************************)
(* The row conversion of the extraction.                                   *)
(***************************************************************************)
\* C15: every row that extract_tiles emits lies in [0, 2^zoom - 1] and
\* converts back, by the same flip, to the row of a stored tile of that zoom
\* with the same column and payload; the rows of bbox_to_tile_range_tms
\* convert back to the rows of bbox_to_tile_range.
C15_FlipConvertsBack ==
    ex.called =>
        LET n == 2 ^ ex.zoom
            t == BboxToTileRangeTms(bbox, ex.zoom)
            r == BboxToTileRange(bbox, ex.zoom)
        IN  /\ (n - 1) - t[3] = r[4]
            /\ (n - 1) - t[4] = r[3]
            /\ \A i \in 1..Len(ex.tiles) :
                  /\ ex.tiles[i][2] \in 0..(n - 1)
                  /\ (n - 1) - ex.tiles[i][2] \in 0..(n - 1)
                  /\ (n - 1) - ((n - 1) - ex.tiles[i][2]) = ex.tiles[i][2]
                  /\ \E k \in 1..Len(store) :
                        /\ store[k].zoom_level = ex.zoom
                        /\ store[k].tile_column = ex.tiles[i][1]
                        /\ store[k].tile_data = ex.tiles[i][3]
                        /\ store[k].tile_row = (n - 1) - ex.tiles[i][2]

\* an extraction of zoom 2 emitted the top row 0 for a tile stored in the
\* bottom-origin row 3
C15_Witness ==
    /\ ex.called
    /\ ex.zoom = 2
    /\ \E i \in 1..Len(ex.tiles) :
          /\ ex.tiles[i][2] = 0
          /\ \E k \in 1..Len(store) :
                /\ store[k].zoom_level = 2
                /\ store[k].tile_column = ex.tiles[i][1]
                /\ store[k].tile_row = 3

(***************************************************************************)
(* The validation of a download request.                                   *)
(***************************************************************************)
\* the zoom levels the source declares, among those a request can name
DeclaredZooms(source) ==
    {z \in 0..(MaxZoom + 1) :
        /\ source.min_zoom # <<>> => z >= source.min_zoom[1]
        /\ source.max_zoom # <<>> => z <= source.max_zoom[1]}

\* the request of the download in progress names a zoom level the source
\* does not declare, or a box with a corner outside the bounds of the source
OutsideLimits ==
    \/ \E z \in dl.min_zoom..dl.max_zoom : z \notin DeclaredZooms(dl.source)
    \/ /\ dl.source.bounds # <<>>
       /\ \/ bbox[1] \notin dl.source.bounds[1]..dl.source.bounds[3]
          \/ bbox[3] \notin dl.source.bounds[1]..dl.source.bounds[3]
          \/ bbox[2] \notin dl.source.bounds[2]..dl.source.bounds[4]
          \/ bbox[4] \notin dl.source.bounds[2]..dl.source.bounds[4]

\* C16: a request outside the limits of the source is fatal before the core
\* runs: nothing is extracted and nothing is written; and every zoom level
\* that is extracted lies within the zoom limits of the source.
C16_OutsideLimitsFatalBeforeCore ==
    /\ (dl.pc # "idle" /\ OutsideLimits) => dl.pc = "raised"
    /\ dl.pc = "raised" =>
          /\ dl.extracted = <<>>
          /\ dl.writes = 0
          /\ ~ex.called
          /\ tree = [z \in TreeZooms |-> NoDir]
          /\ index = [z \in TreeZooms |-> NoIndex]
    /\ \A i \in 1..Len(dl.extracted) :
          dl.extracted[i] \in DeclaredZooms(dl.source)

\* a request up to zoom 2 on a source that declares max_zoom 1 was refused
C16_Witness ==
    /\ dl.pc = "raised"
    /\ dl.source.present
    /\ dl.source.max_zoom = <<1>>
    /\ dl.min_zoom = 0
    /\ dl.max_zoom = 2
    /\ ~ex.called

(***************************************************************************)
(* The paths of the tiles: one whole write_tiles call without I/O fault,   *)
(* with a source type of the extension table or another one.               *)
(***************************************************************************)
\* get_output_path below <output_dir>/<region_name>: the zoom directory, the
\* name of the column directory and the name of the file
GetOutputPath(zoom, x, y, extension) ==
    <<zoom, IntToStr(x), IntToStr(y) \o <<".">> \o extension>>

\* source_type arguments of a direct write_tiles call
PathSourceTypes == {"mbtiles", "folder"}

\* arguments of write_tiles: the keys ascending, at most MaxTiles records
PathRequests ==
    UNION {{tbz \in {[i \in 1..Len(o) |-> [zoom |-> o[i], tiles |-> c[i]]]
                       : c \in [1..Len(o) ->
                                  UNION {[1..n -> TileRecords]
                                           : n \in 0..MaxTiles}]} :
               SumN([i \in 1..Len(tbz) |->
                       [zoom |-> tbz[i].zoom, n |-> Len(tbz[i].tiles)]])
                   <= MaxTiles}
           : o \in ZoomOrders}

\* write_tiles(tiles_by_zoom, region_name, source_type) as one step
WritePathsCall(tbz, st) ==
    /\ pc = "idle"
    /\ tiles_by_zoom = <<>>
    /\ tbz # <<>>
    /\ LET keys == [i \in 1..Len(tbz) |-> tbz[i].zoom]
           w == WriteZoomsFrom(tree, tbz, 1, st, 0)
       IN  /\ tree' = w.tree
           /\ index' = CreateTileIndex(w.tree, index, keys, 0)
           /\ ret' = w.ok
    /\ tiles_by_zoom' = tbz
    /\ source_type' = st
    /\ UNCHANGED <<pc, zi, ti, total_tiles, failed_tiles, supplied, obs,
                   evars, dl, xvars>>

NextPaths ==
    \E tbz \in PathRequests, st \in PathSourceTypes : WritePathsCall(tbz, st)

SpecPaths == Init /\ [][NextPaths]_vars

\* the records of a list that _write_single_tile accepts
Writable(tile_info) ==
    /\ Len(tile_info) = 3
    /\ tile_info[3].kind \in {"bytes", "str"}

\* the bytes that are written for a payload
Written(tile_data) ==
    IF tile_data.kind = "str" THEN Utf8Encode(tile_data.val)
    ELSE tile_data.val

\* C17: every tile that the call wrote is the one file at
\* get_output_path(region, zoom, column, row, ext) and holds the bytes of a
\* record of that column and row; ext is jpg for the source type of the table
\* and for another one, whatever the payload; and the tree holds no file but
\* those.
C17_WrittenAtOutputPath ==
    LET jpg == <<"j", "p", "g">>
    IN  /\ \A i \in 1..Len(tiles_by_zoom) :
              \A j \in 1..Len(tiles_by_zoom[i].tiles) :
                 LET zoom == tiles_by_zoom[i].zoom
                     t == tiles_by_zoom[i].tiles[j]
                 IN  Writable(t) =>
                        LET path == GetOutputPath(zoom, t[1], t[2], jpg)
                            at == FilesAt(path[1], path[2], path[3])
                        IN  /\ tree[zoom].exists
                            /\ Cardinality(at) = 1
                            /\ \A p \in at :
                                  /\ tree[zoom].entries[p[1]].isdir
                                  /\ \E k \in 1..Len(tiles_by_zoom[i].tiles) :
                                        LET u == tiles_by_zoom[i].tiles[k]
                                        IN  /\ Writable(u)
                                            /\ u[1] = t[1]
                                            /\ u[2] = t[2]
                                            /\ tree[zoom].entries[p[1]]
                                                   .files[p[2]].data
                                                 = Written(u[3])
        /\ \A z \in TreeZooms :
              \A e \in 1..Len(tree[z].entries) :
                 \A f \in 1..Len(tree[z].entries[e].files) :
                    \E i \in 1..Len(tiles_by_zoom) :
                       \E j \in 1..Len(tiles_by_zoom[i].tiles) :
                          LET t == tiles_by_zoom[i].tiles[j]
                          IN  /\ Writable(t)
                              /\ GetOutputPath(tiles_by_zoom[i].zoom,
                                               t[1], t[2], jpg)
                                   = <<z, tree[z].entries[e].name,
                                       tree[z].entries[e].files[f].name>>
        /\ ret = Cardinality({ij \in UNION {{<<i, j>> :
                                    j \in 1..Len(tiles_by_zoom[i].tiles)}
                                  : i \in 1..Len(tiles_by_zoom)} :
                     Writable(tiles_by_zoom[ij[1]].tiles[ij[2]])})

\* a call with a source type that is not in the table wrote a bytes payload
\* and a str payload of zoom 2 in two files of column 1 and column 0
C17_Witness ==
    /\ source_type = "folder"
    /\ ret = 2
    /\ Len(tiles_by_zoom) = 1
    /\ tiles_by_zoom[1].zoom = 2
    /\ tiles_by_zoom[1].tiles = <<<<1, 0, BytesA>>, <<0, 0, StrE>>>>
    /\ Cardinality(FilesAt(2, <<"1">>, <<"0", ".", "j", "p", "g">>)) = 1
    /\ Cardinality(FilesAt(2, <<"0">>, <<"0", ".", "j", "p", "g">>)) = 1

\* C18: for a longitude of [-180, 180] the column of lat_lon_to_tile is
\* floor((lon + 180) / 360 * 2^zoom) and lies in [0, 2^zoom - 1], and so do
\* the column bounds of bbox_to_tile_range and bbox_to_tile_range_tms.
C18_ColumnIsValid ==
    /\ (conv.called /\ conv.op = "tile") =>
          /\ conv.result[1] = ((conv.lon + 180) * (2 ^ conv.zoom)) \div 360
          /\ conv.result[1] \in 0..((2 ^ conv.zoom) - 1)
    /\ (conv.called /\ conv.op \in {"range", "range_tms"}) =>
          /\ conv.result[1] \in 0..((2 ^ conv.zoom) - 1)
          /\ conv.result[2] \in 0..((2 ^ conv.zoom) - 1)

(***************************************************************************)
(* ConfigManager.__init__ inside LocalTileDownloader.__init__.  The file   *)
(* at config_path is missing, unreadable, empty, not parseable, or a       *)
(* document; of a document the model keeps each required section: absent,  *)
(* an empty dict, an empty list or a str, and whether it has another key.  *)
(* attrs is the set of attributes the object has so far.                   *)
(***************************************************************************)
RequiredSections == <<"sources", "predefined_regions", "defaults">>

SectionValues == {"absent", "dict", "list", "str"}

ConfigFiles ==
    {[kind |-> k, sections |-> <<"absent", "absent", "absent">>,
      other |-> FALSE] : k \in {"missing", "unreadable", "empty", "invalid"}}
    \cup {[kind |-> "document", sections |-> sec, other |-> o]
            : sec \in [1..3 -> SectionValues], o \in BOOLEAN}

\* the file kinds of a failed load
FailedLoads == {"missing", "unreadable", "empty", "invalid"}

NoConfig ==
    [called |-> FALSE, pc |-> "idle",
     file |-> [kind |-> "missing", sections |-> <<"absent", "absent", "absent">>,
               other |-> FALSE],
     attrs |-> {}, config |-> "unset", errors |-> <<>>, warnings |-> <<>>,
     raised |-> "none", downloader |-> "none"]

\* bool(value) of a section value; an absent one is read with the default {}
Truthy(v) == v = "str"

\* _validate_required_sections: the errors it appends
RECURSIVE ValidateRequiredSections(_, _)
ValidateRequiredSections(sections, i) ==
    IF i > Len(RequiredSections) THEN <<>>
    ELSE (IF sections[i] = "absent"
          THEN <<<<"missing section", RequiredSections[i]>>>>
          ELSE IF sections[i] # "dict"
          THEN <<<<"section not a dict", RequiredSections[i]>>>>
          ELSE <<>>)
         \o ValidateRequiredSections(sections, i + 1)

\* _validate_config on a document: the five validations in order.  A
\* section without entries brings a warning; .items() on a str or a list and
\* .get() on a value that is not a dict raise AttributeError
ValidateConfig(sections) ==
    LET errors == ValidateRequiredSections(sections, 1)
        w1 == IF Truthy(sections[1]) THEN <<>> ELSE <<"no sources">>
        w2 == IF Truthy(sections[2]) THEN <<>> ELSE <<"no regions">>
    IN  IF Truthy(sections[1])                 \* _validate_sources
        THEN [errors |-> errors, warnings |-> <<>>,
              raised |-> "AttributeError"]
        ELSE IF Truthy(sections[2])            \* _validate_regions
        THEN [errors |-> errors, warnings |-> w1,
              raised |-> "AttributeError"]
        ELSE IF sections[3] \in {"list", "str"}   \* _validate_defaults
        THEN [errors |-> errors, warnings |-> w1 \o w2,
              raised |-> "AttributeError"]
        ELSE IF sections[1] = "list"           \* _check_file_paths
        THEN [errors |-> errors, warnings |-> w1 \o w2,
              raised |-> "AttributeError"]
        ELSE [errors |-> errors, warnings |-> w1 \o w2, raised |-> "none"]

\* self.config = self._load_config(): a failed load appends to self.errors
\* in the try body (empty file) or in an except handler; the attribute must
\* exist for that, or AttributeError leaves the constructor
ConfigLoad ==
    /\ cfg.pc = "idle"
    /\ cfg' = IF cfg.file.kind \in FailedLoads
              THEN IF "errors" \in cfg.attrs
                   THEN [cfg EXCEPT !.called = TRUE,
                                    !.errors = Append(@, <<"load", cfg.file.kind>>),
                                    !.config = "empty dict",
                                    !.attrs = @ \cup {"config"},
                                    !.pc = "loaded"]
                   ELSE [cfg EXCEPT !.called = TRUE,
                                    !.raised = "AttributeError",
                                    !.pc = "raised"]
              ELSE [cfg EXCEPT !.called = TRUE,
                               !.config =
                                   IF cfg.file.other
                                      \/ \E i \in 1..3 :
                                            cfg.file.sections[i] # "absent"
                                   THEN "document" ELSE "empty dict",
                               !.attrs = @ \cup {"config"},
                               !.pc = "loaded"]
    /\ UNCHANGED <<wvars, evars, dl, stats, conv, cli>>

\* self.errors = []; self.warnings = []
ConfigInitLists ==
    /\ cfg.pc = "loaded"
    /\ cfg' = [cfg EXCEPT !.errors = <<>>,
                          !.warnings = <<>>,
                          !.attrs = @ \cup {"errors", "warnings"},
                          !.pc = IF cfg.config = "document" THEN "validate"
                                 ELSE "constructed"]
    /\ UNCHANGED <<wvars, evars, dl, stats, conv, cli>>

\* if self.config: self._validate_config()
ConfigValidate ==
    /\ cfg.pc = "validate"
    /\ LET v == ValidateConfig(cfg.file.sections)
       IN  cfg' = [cfg EXCEPT !.errors = @ \o v.errors,
                              !.warnings = @ \o v.warnings,
                              !.raised = v.raised,
                              !.pc = IF v.raised = "none" THEN "constructed"
                                     ELSE "raised"]
    /\ UNCHANGED <<wvars, evars, dl, stats, conv, cli>>

\* the rest of LocalTileDownloader.__init__: what ConfigManager() raised
\* leaves it too; ValueError when validate_config() is False; otherwise the
\* downloader is built
DownloaderInit ==
    /\ cfg.pc \in {"constructed", "raised"}
    /\ cfg.downloader = "none"
    /\ cfg' = [cfg EXCEPT !.downloader =
                  IF cfg.pc = "raised" THEN cfg.raised
                  ELSE IF Len(cfg.errors) # 0 THEN "ValueError"
                  ELSE "ready"]
    /\ UNCHANGED <<wvars, evars, dl, stats, conv, cli>>

InitConfig ==
    /\ WriterInit
    /\ store = <<>>
    /\ bbox = <<0, 0, 0, 0>>
    /\ ex = NoExtract
    /\ dl = NoDownload
    /\ stats = NoCall
    /\ conv = NoCall
    /\ cli = NoCall
    /\ cfg \in {[NoConfig EXCEPT !.file = f] : f \in ConfigFiles}

NextConfig ==
    \/ ConfigLoad
    \/ ConfigInitLists
    \/ ConfigValidate
    \/ DownloaderInit

SpecConfig == InitConfig /\ [][NextConfig]_vars

\* C19: with a missing, empty or unparseable configuration file the
\* construction of ConfigManager completes without raising and keeps the load
\* error: get_errors() is not empty and validate_config() is False, and
\* LocalTileDownloader refuses the configuration with its ValueError.
C19_LoadErrorStaysRecorded ==
    (cfg.file.kind \in {"missing", "empty", "invalid"}) =>
        /\ cfg.pc # "raised"
        /\ cfg.pc = "constructed" => Len(cfg.errors) # 0
        /\ cfg.downloader \in {"none", "ValueError"}

(***************************************************************************)
(* main().  An option that was not given is <<>> (None), a given one is    *)
(* <<value>>.  The configuration has one source and one region.            *)
(***************************************************************************)
\* values of --min-lon, --min-lat, --max-lon, --max-lat
CliCoords == {<<>>, <<-10>>, <<0>>, <<10>>}

\* --validate-config, --list-sources, --list-regions, or none of them
CliCommands == {"none", "validate_config", "list_sources", "list_regions"}

\* --source and --region: not given, a name of the configuration, another name
CliNames == {"none", "known", "unknown"}

\* the bbox of the region of the configuration
RegionBBox == <<-10, -10, 10, 10>>

\* bool(x) of an option of type float: None and 0.0 are false
CliTruthy(c) == c # <<>> /\ c[1] # 0

\* main(): what it does last, and the bbox it hands to download_area.
\* configOk: LocalTileDownloader() is built without raising
Main(command, source, region, c, configOk) ==
    IF command # "none"
    THEN [outcome |-> "report", bbox |-> <<>>]
    ELSE IF source = "none"
    THEN [outcome |-> "usage", bbox |-> <<>>]
    ELSE IF ~configOk
    THEN [outcome |-> "error", bbox |-> <<>>]
    ELSE IF source = "unknown"
    THEN [outcome |-> "unknown source", bbox |-> <<>>]
    ELSE IF region # "none"
    THEN IF region = "known"
         THEN [outcome |-> "download_area", bbox |-> RegionBBox]
         ELSE [outcome |-> "error", bbox |-> <<>>]
    ELSE IF ~(\A i \in 1..4 : CliTruthy(c[i]))
    THEN [outcome |-> "coordinates required", bbox |-> <<>>]
    ELSE LET b == <<c[1][1], c[2][1], c[3][1], c[4][1]>>
         IN  IF b[1] >= b[3] \/ b[2] >= b[4]
             THEN [outcome |-> "invalid coordinates", bbox |-> <<>>]
             ELSE [outcome |-> "download_area", bbox |-> b]

NoMain ==
    [called |-> FALSE, command |-> "none", source |-> "none",
     region |-> "none", coords |-> <<<<>>, <<>>, <<>>, <<>>>>,
     outcome |-> "none", bbox |-> <<>>]

\* one run of main() with the given command line
MainCall(command, source, region, c, configOk) ==
    /\ ~cli.called
    /\ cli' = [called |-> TRUE, command |-> command, source |-> source,
               region |-> region, coords |-> c]
              @@ Main(command, source, region, c, configOk)
    /\ UNCHANGED <<wvars, evars, dl, stats, conv, cfg>>

InitMain ==
    /\ WriterInit
    /\ store = <<>>
    /\ bbox = <<0, 0, 0, 0>>
    /\ ex = NoExtract
    /\ dl = NoDownload
    /\ stats = NoCall
    /\ conv = NoCall
    /\ cfg = NoCall
    /\ cli = NoMain

NextMain ==
    \E command \in CliCommands, source, region \in CliNames,
       c \in [1..4 -> CliCoords], configOk \in BOOLEAN :
          MainCall(command, source, region, c, configOk)

SpecMain == InitMain /\ [][NextMain]_vars

\* C20: without --region, with the four coordinates given, min_lon < max_lon
\* and min_lat < max_lat, and a source of the configuration, main hands
\* exactly that box to download_area, a coordinate equal to 0 included.
C20_GivenCoordinatesAccepted ==
    (/\ cli.called
     /\ cli.command = "none"
     /\ cli.source = "known"
     /\ cli.region = "none"
     /\ \A i \in 1..4 : cli.coords[i] # <<>>
     /\ cli.outcome # "error") =>
        LET b == <<cli.coords[1][1], cli.coords[2][1],
                   cli.coords[3][1], cli.coords[4][1]>>
        IN  (b[1] < b[3] /\ b[2] < b[4]) =>
               /\ cli.outcome = "download_area"
               /\ cli.bbox = b

====
